---- MODULE Spec2Model ----
(***************************************************************************)
(* Model of package observe (src/observe/observe.go): detection of the    *)
(* GCP platform from the process environment and registration of the      *)
(* Stackdriver trace/metrics exporter and the profiler.                    *)
(*                                                                         *)
(* The process environment is a function from variable names to strings.  *)
(* The external libraries (monitoredresource.Autodetect,                   *)
(* google.FindDefaultCredentials, stackdriver.NewExporter,                 *)
(* trace.RegisterExporter, view.RegisterExporter, profiler.Start) are      *)
(* opaque: what each of them answers during one invocation is chosen       *)
(* nondeterministically (the record "o" below), and every call made to     *)
(* them is appended to the invocation's call log.                          *)
(***************************************************************************)
EXTENDS Integers, Sequences, FiniteSets, TLC

VARIABLES env, traceExporters, viewExporters, profilerCfg, nInvoke, last

vars == <<env, traceExporters, viewExporters, profilerCfg, nInvoke, last>>

\* Number of library calls made by the host process in one behaviour.
MaxInvocations == 1

----------------------------------------------------------------------------
\* The environment variables the package reads, and the values tried.

EnvVars ==
  {"GIZMO_SKIP_OBSERVE", "GAE_DEPLOYMENT_ID", "GOOGLE_CLOUD_PROJECT",
   "GAE_SERVICE", "GAE_VERSION", "SERVICE_NAME", "SERVICE_VERSION"}

\* os.Getenv yields "" for an unset variable.
EnvValues(v) ==
  CASE v = "GIZMO_SKIP_OBSERVE"   -> {"", "1"}
    [] v = "GAE_DEPLOYMENT_ID"    -> {"", "dep-1"}
    [] v = "GOOGLE_CLOUD_PROJECT" -> {"", "proj"}
    [] v = "GAE_SERVICE"          -> {"", "gae-svc"}
    [] v = "GAE_VERSION"          -> {"", "gae-v1"}
    [] v = "SERVICE_NAME"         -> {"", "svc"}
    [] v = "SERVICE_VERSION"      -> {"", "v1"}

Environments == {e \in [EnvVars -> {"", "1", "dep-1", "proj", "gae-svc", "gae-v1", "svc", "v1"}] :
                   \A v \in EnvVars : e[v] \in EnvValues(v)}

\* Values of the external collaborators.
NoResource == "nil"                              \* monitoredresource.Interface(nil)
Resources  == {"gce_instance", "k8s_container"}  \* descriptors Autodetect can return
CredErr    == "no-credentials"                   \* FindDefaultCredentials failed
Creds      == {"adc"}                            \* credentials found
Callbacks  == {"onError"}                        \* the caller's error callback
ProjectIDs == {"", "proj", "other"}              \* projectID arguments

\* Go errors: nil is the empty chain, a wrapped error is message + cause chain.
Nil == <<>>
ErrorsNew(msg) == <<msg>>

WrapAlways(err, msg) == <<msg>> \o err

\* errors.Wrap returns nil when err is nil.
Wrap(err, msg) == IF err = Nil THEN Nil ELSE <<msg>> \o err

ExporterFailure == <<"stackdriver: invalid options">>
ProfilerFailure == <<"profiler: start failed">>

\* *stackdriver.Exporter: the nil pointer has id 0.
NilExporter == [id |-> 0]
NewExp(n) == [id |-> n]

\* What the external world answers during one invocation.
Worlds ==
  [ad1 : Resources \cup {NoResource},     \* Autodetect inside IsGCPEnabled
   cred : Creds \cup {CredErr},           \* FindDefaultCredentials
   ad2 : Resources \cup {NoResource},     \* Autodetect inside getSDOpts
   factoryErr : {Nil, ExporterFailure},   \* stackdriver.NewExporter
   profilerErr : {Nil, ProfilerFailure}]  \* profiler.Start

\* One entry of the call log: who called which external function.
Call(by, fn, arg, res) == [by |-> by, fn |-> fn, arg |-> arg, res |-> res]

----------------------------------------------------------------------------
\* Environment inspection.

SkipObserveOnlyTrue(e) == e["GIZMO_SKIP_OBSERVE"] = "true"

SkipObserve(e) == e["GIZMO_SKIP_OBSERVE"] # ""

GoogleProjectID(e) == e["GOOGLE_CLOUD_PROJECT"]

IsGAE(e) == e["GAE_DEPLOYMENT_ID"] # ""

GetGAEInfo(e) == <<GoogleProjectID(e), e["GAE_SERVICE"], e["GAE_VERSION"]>>

GetServiceInfoGeneric(e) ==
  <<GoogleProjectID(e), e["SERVICE_NAME"], e["SERVICE_VERSION"]>>

GetServiceInfo(e) ==
  IF IsGAE(e) THEN GetGAEInfo(e)
  ELSE <<GoogleProjectID(e), e["SERVICE_NAME"], e["SERVICE_VERSION"]>>

----------------------------------------------------------------------------
\* Capability probe.

\* Variant that also accepts a configured project as proof of the platform.
IsGCPEnabledProject(e, o) ==
  IF IsGAE(e) \/ GoogleProjectID(e) # "" THEN [ok |-> TRUE, calls |-> <<>>]
  ELSE [ok |-> o.ad1 # NoResource,
        calls |-> <<Call("IsGCPEnabled", "Autodetect", <<>>, o.ad1)>>]

\* IsGAE() || Autodetect() != nil: Autodetect runs only when IsGAE is false.
IsGCPEnabled(e, o) ==
  IF IsGAE(e) THEN [ok |-> TRUE, calls |-> <<>>]
  ELSE [ok |-> o.ad1 # NoResource,
        calls |-> <<Call("IsGCPEnabled", "Autodetect", <<>>, o.ad1)>>]

Options(projectID, mr, creds, onErr, service, version) ==
  [ProjectID |-> projectID,
   MonitoredResource |-> mr,
   Credentials |-> creds,
   OnError |-> onErr,
   service |-> service,
   version |-> version]

\* Variants of getSDOpts with a plausible slip each.
getSDOptsResourceFirst(e, projectID, service, version, onErr, o) ==
  LET c1 == <<Call("getSDOpts", "FindDefaultCredentials", <<>>, o.cred)>>
      c2 == c1 \o <<Call("getSDOpts", "Autodetect", <<>>, o.ad2)>>
  IN  IF o.cred = CredErr /\ o.ad2 = NoResource
      THEN [opts |-> <<>>, calls |-> c2]
      ELSE [opts |-> <<Options(projectID, o.ad2, o.cred, onErr, service, version)>>,
            calls |-> c2]

getSDOptsNoExportCheck(e, projectID, service, version, onErr, o) ==
  LET c1 == <<Call("getSDOpts", "FindDefaultCredentials", <<>>, o.cred)>>
      c2 == c1 \o <<Call("getSDOpts", "Autodetect", <<>>, o.ad2)>>
  IN  IF o.cred = CredErr THEN [opts |-> <<>>, calls |-> c1]
      ELSE [opts |-> <<Options(projectID, o.ad2, o.cred, onErr, service, version)>>,
            calls |-> c2]

getSDOptsRetry(e, projectID, service, version, onErr, o) ==
  LET c1 == <<Call("getSDOpts", "FindDefaultCredentials", <<>>, o.cred)>>
      c2 == c1 \o <<Call("getSDOpts", "Autodetect", <<>>, o.ad2)>>
      canExport == IF o.ad2 # NoResource THEN TRUE ELSE IsGAE(e)
  IN  IF o.cred = CredErr THEN [opts |-> <<>>, calls |-> c1 \o c1]
      ELSE IF ~canExport THEN [opts |-> <<>>, calls |-> c2]
      ELSE [opts |-> <<Options(projectID, o.ad2, o.cred, onErr, service, version)>>,
            calls |-> c2]

getSDOptsIgnoreGAE(e, projectID, service, version, onErr, o) ==
  LET c1 == <<Call("getSDOpts", "FindDefaultCredentials", <<>>, o.cred)>>
      c2 == c1 \o <<Call("getSDOpts", "Autodetect", <<>>, o.ad2)>>
  IN  IF o.cred = CredErr THEN [opts |-> <<>>, calls |-> c1]
      ELSE IF o.ad2 = NoResource THEN [opts |-> <<>>, calls |-> c2]
      ELSE [opts |-> <<Options(projectID, o.ad2, o.cred, onErr, service, version)>>,
            calls |-> c2]

\* getSDOpts: <<>> is the nil *stackdriver.Options.
getSDOpts(e, projectID, service, version, onErr, o) ==
  LET c1 == <<Call("getSDOpts", "FindDefaultCredentials", <<>>, o.cred)>>
  IN  IF o.cred = CredErr THEN [opts |-> <<>>, calls |-> c1]
      ELSE
        LET m  == o.ad2
            c2 == c1 \o <<Call("getSDOpts", "Autodetect", <<>>, m)>>
            mr == IF m # NoResource THEN m ELSE NoResource
            canExport == IF m # NoResource THEN TRUE ELSE IsGAE(e)
        IN  IF ~canExport THEN [opts |-> <<>>, calls |-> c2]
            ELSE [opts |-> <<Options(projectID, mr, o.cred, onErr, service, version)>>,
                  calls |-> c2]

----------------------------------------------------------------------------
\* Exporter assembly.

\* NewStackdriverExporter: n numbers the exporter the factory would create.
NewStackdriverExporter(e, projectID, onErr, o, n) ==
  LET info == GetServiceInfo(e)
      d    == getSDOpts(e, projectID, info[2], info[3], onErr, o)
  IN  IF d.opts = <<>>
      THEN [exp |-> NilExporter, err |-> Nil, opts |-> d.opts, calls |-> d.calls]
      ELSE LET exp == IF o.factoryErr = Nil THEN NewExp(n) ELSE NilExporter
           IN  [exp |-> exp, err |-> o.factoryErr, opts |-> d.opts,
                calls |-> d.calls \o
                  <<Call("NewStackdriverExporter", "stackdriver.NewExporter",
                         d.opts[1], <<exp, o.factoryErr>>)>>]

----------------------------------------------------------------------------
\* Registration.

PlatformUnsupported ==
  ErrorsNew("environment is not GCP enabled, no observe tools will be run")

ProfilerConfig(projectID, service, version) ==
  [ProjectID |-> projectID, Service |-> service, ServiceVersion |-> version]

\* The three calls RegisterAndObserveGCP makes after the exporter was built.
RegistrationCalls(exp, info, o) ==
  <<Call("RegisterAndObserveGCP", "trace.RegisterExporter", exp, <<>>),
    Call("RegisterAndObserveGCP", "view.RegisterExporter", exp, <<>>),
    Call("RegisterAndObserveGCP", "profiler.Start",
         ProfilerConfig(info[1], info[2], info[3]), o.profilerErr)>>

Outcome(ret, calls, exp, opts) ==
  [ret |-> ret, calls |-> calls, exp |-> exp, opts |-> opts]

\* Variant that registers without looking at the factory's error.
RegisterAndObserveGCPNoErrCheck(e, onError, o, n) ==
  IF SkipObserve(e) THEN Outcome(Nil, <<>>, NilExporter, <<>>)
  ELSE
    LET g == IsGCPEnabled(e, o)
    IN  IF ~g.ok THEN Outcome(PlatformUnsupported, g.calls, NilExporter, <<>>)
        ELSE
          LET info == GetServiceInfo(e)
              x    == NewStackdriverExporter(e, info[1], onError, o, n)
              c    == g.calls \o x.calls \o RegistrationCalls(x.exp, info, o)
          IN  IF x.err # Nil
              THEN Outcome(Wrap(x.err, "unable to initiate error tracing exporter"),
                           c, x.exp, x.opts)
              ELSE Outcome(Wrap(o.profilerErr, "unable to initiate profiling client"),
                           c, x.exp, x.opts)

RegisterAndObserveGCP(e, onError, o, n) ==
  IF SkipObserve(e) THEN Outcome(Nil, <<>>, NilExporter, <<>>)
  ELSE
    LET g == IsGCPEnabled(e, o)
    IN  IF ~g.ok THEN Outcome(PlatformUnsupported, g.calls, NilExporter, <<>>)
        ELSE
          LET info == GetServiceInfo(e)
              x    == NewStackdriverExporter(e, info[1], onError, o, n)
              c    == g.calls \o x.calls
          IN  IF x.err # Nil
              THEN Outcome(Wrap(x.err, "unable to initiate error tracing exporter"),
                           c, x.exp, x.opts)
              ELSE Outcome(Wrap(o.profilerErr, "unable to initiate profiling client"),
                           c \o RegistrationCalls(x.exp, info, o), x.exp, x.opts)

----------------------------------------------------------------------------
\* State: the environment, the process-wide registries of the external
\* libraries, and the record of the most recent call into the package.

\* Answers of collaborators an operation never consults.
NotAsked ==
  [ad1 |-> "-", cred |-> "-", ad2 |-> "-", factoryErr |-> Nil, profilerErr |-> Nil]

NoInfo == <<"", "", "">>

Record(op, projectID, o, ret, calls, exp, opts, info, ok) ==
  [op |-> op, projectID |-> projectID, world |-> o, ret |-> ret, calls |-> calls,
   exp |-> exp, opts |-> opts, info |-> info, ok |-> ok]

\* Arguments of the calls to fn found in a call log.
ArgsOf(calls, fn) == {calls[i].arg : i \in {j \in DOMAIN calls : calls[j].fn = fn}}

Init ==
  /\ env \in Environments
  /\ traceExporters = {}
  /\ viewExporters = {}
  /\ profilerCfg = <<>>
  /\ nInvoke = 0
  /\ last = Record("none", "", NotAsked, Nil, <<>>, NilExporter, <<>>, NoInfo, FALSE)

CallRegisterAndObserveGCP ==
  /\ nInvoke < MaxInvocations
  /\ \E onError \in Callbacks, o \in Worlds :
       LET r == RegisterAndObserveGCP(env, onError, o, nInvoke + 1)
           started == {r.calls[i].arg : i \in {j \in DOMAIN r.calls :
                          r.calls[j].fn = "profiler.Start" /\ r.calls[j].res = Nil}}
       IN  /\ last' = Record("RegisterAndObserveGCP", "", o, r.ret, r.calls, r.exp,
                             r.opts, NoInfo, FALSE)
           /\ traceExporters' = traceExporters \cup ArgsOf(r.calls, "trace.RegisterExporter")
           /\ viewExporters' = viewExporters \cup ArgsOf(r.calls, "view.RegisterExporter")
           /\ profilerCfg' = IF started = {} THEN profilerCfg
                             ELSE <<CHOOSE c \in started : TRUE>>
  /\ nInvoke' = nInvoke + 1
  /\ UNCHANGED env

CallNewStackdriverExporter ==
  /\ nInvoke < MaxInvocations
  /\ \E projectID \in ProjectIDs, onErr \in Callbacks,
        cr \in Creds \cup {CredErr}, a \in Resources \cup {NoResource},
        f \in {Nil, ExporterFailure} :
       LET o == [NotAsked EXCEPT !.cred = cr, !.ad2 = a, !.factoryErr = f]
           r == NewStackdriverExporter(env, projectID, onErr, o, nInvoke + 1)
       IN  last' = Record("NewStackdriverExporter", projectID, o, r.err, r.calls,
                          r.exp, r.opts, NoInfo, FALSE)
  /\ nInvoke' = nInvoke + 1
  /\ UNCHANGED <<env, traceExporters, viewExporters, profilerCfg>>

CallIsGCPEnabled ==
  /\ nInvoke < MaxInvocations
  /\ \E a \in Resources \cup {NoResource} :
       LET o == [NotAsked EXCEPT !.ad1 = a]
           r == IsGCPEnabled(env, o)
       IN  last' = Record("IsGCPEnabled", "", o, Nil, r.calls, NilExporter, <<>>,
                          NoInfo, r.ok)
  /\ nInvoke' = nInvoke + 1
  /\ UNCHANGED <<env, traceExporters, viewExporters, profilerCfg>>

CallGetServiceInfo ==
  /\ nInvoke < MaxInvocations
  /\ last' = Record("GetServiceInfo", "", NotAsked, Nil, <<>>, NilExporter, <<>>,
                    GetServiceInfo(env), FALSE)
  /\ nInvoke' = nInvoke + 1
  /\ UNCHANGED <<env, traceExporters, viewExporters, profilerCfg>>

Next ==
  \/ CallRegisterAndObserveGCP
  \/ CallNewStackdriverExporter
  \/ CallIsGCPEnabled
  \/ CallGetServiceInfo

Spec == Init /\ [][Next]_vars

----------------------------------------------------------------------------
\* Properties.  They are stated over the record of the most recent call:
\* its operation, the answers the collaborators had for it (last.world),
\* the calls it made (last.calls) and what it returned.

ExternalFns ==
  {"Autodetect", "FindDefaultCredentials", "stackdriver.NewExporter",
   "trace.RegisterExporter", "view.RegisterExporter", "profiler.Start"}

\* Positions of the calls to fn in the last call log.
Idx(fn) == {i \in DOMAIN last.calls : last.calls[i].fn = fn}

Registered == last.op = "RegisterAndObserveGCP"
Built == last.op = "NewStackdriverExporter"

\* The platform check of the last RegisterAndObserveGCP passed.
PlatformPassed == IsGAE(env) \/ last.world.ad1 # NoResource

\* C1: with GIZMO_SKIP_OBSERVE non-empty, RegisterAndObserveGCP returns nil
\* and calls no external collaborator at all.
C1_OptOutNoCalls ==
  (Registered /\ env["GIZMO_SKIP_OBSERVE"] # "")
    => (last.ret = Nil /\ last.calls = <<>>)

C1_Witness ==
  /\ Registered
  /\ env["GIZMO_SKIP_OBSERVE"] # ""
  /\ env["GAE_DEPLOYMENT_ID"] # ""
  /\ last.world.cred # CredErr

\* C2 as stated: Autodetect answers nil and GAE_DEPLOYMENT_ID is unset =>
\* IsGCPEnabled is false whatever the other variables are, and
\* RegisterAndObserveGCP returns the platform-unsupported error.
C2_Original ==
  (env["GAE_DEPLOYMENT_ID"] = "" /\ last.world.ad1 = NoResource)
    => /\ (last.op = "IsGCPEnabled" => ~last.ok)
       /\ (Registered => last.ret = PlatformUnsupported)

\* C2 amended: IsGCPEnabled is false whatever the other variables are;
\* RegisterAndObserveGCP returns the platform-unsupported error provided
\* GIZMO_SKIP_OBSERVE is empty, and then stops after the one Autodetect call.
C2_PlatformUnsupported ==
  (env["GAE_DEPLOYMENT_ID"] = "" /\ last.world.ad1 = NoResource)
    => /\ (last.op = "IsGCPEnabled" => ~last.ok)
       /\ (Registered /\ env["GIZMO_SKIP_OBSERVE"] = ""
             => /\ last.ret = PlatformUnsupported
                /\ Len(last.calls) = 1
                /\ last.calls[1].fn = "Autodetect")

C2_Witness ==
  /\ Registered
  /\ env["GAE_DEPLOYMENT_ID"] = ""
  /\ env["GIZMO_SKIP_OBSERVE"] = ""
  /\ last.world.ad1 = NoResource
  /\ env["GOOGLE_CLOUD_PROJECT"] # ""
  /\ last.world.cred # CredErr

\* C3: when credential discovery fails NewStackdriverExporter returns
\* (nil, nil) and the exporter factory is not called, in every environment
\* and whatever Autodetect would answer.
C3_CredentialFailureWins ==
  (Built /\ last.world.cred = CredErr)
    => /\ last.exp = NilExporter
       /\ last.ret = Nil
       /\ Idx("stackdriver.NewExporter") = {}

C3_Witness ==
  /\ Built
  /\ last.world.cred = CredErr
  /\ env["GAE_DEPLOYMENT_ID"] # ""
  /\ last.world.ad2 # NoResource

\* C4: getSDOpts returns options only when credentials were found and either
\* GAE is detected or Autodetect returned a descriptor; the options'
\* MonitoredResource is exactly Autodetect's answer, nil only under GAE.
C4_ConfigOnlyWhenViable ==
  ((Built \/ Registered) /\ last.opts # <<>>)
    => /\ last.world.cred # CredErr
       /\ last.opts[1].Credentials = last.world.cred
       /\ (IsGAE(env) \/ last.world.ad2 # NoResource)
       /\ last.opts[1].MonitoredResource = last.world.ad2
       /\ (last.opts[1].MonitoredResource = NoResource => IsGAE(env))
       /\ \E i \in Idx("Autodetect") :
            /\ last.calls[i].by = "getSDOpts"
            /\ last.calls[i].res = last.opts[1].MonitoredResource

C4_Witness ==
  /\ Built
  /\ last.opts # <<>>
  /\ last.opts[1].MonitoredResource = NoResource

\* C5 as stated: no external function is called twice within one
\* invocation of RegisterAndObserveGCP.
C5_Original ==
  Registered => \A fn \in ExternalFns : Cardinality(Idx(fn)) <= 1

\* C5 amended: within one invocation every external function other than
\* Autodetect is called at most once; Autodetect is called at most twice,
\* at most once by IsGCPEnabled and at most once by getSDOpts.
C5_AtMostOncePerCaller ==
  Registered =>
    /\ \A fn \in ExternalFns \ {"Autodetect"} : Cardinality(Idx(fn)) <= 1
    /\ Cardinality(Idx("Autodetect")) <= 2
    /\ \A by \in {"IsGCPEnabled", "getSDOpts"} :
         Cardinality({i \in Idx("Autodetect") : last.calls[i].by = by}) <= 1

C5_Witness ==
  /\ Registered
  /\ Cardinality(Idx("Autodetect")) = 2
  /\ Idx("profiler.Start") # {}

\* C6 as stated: opt-out unset, platform enabled, credential discovery
\* fails => no error caused by the credential failure and no exporter is
\* registered with the trace registry or the metrics registry.
C6_SilentSkip ==
  (Registered /\ env["GIZMO_SKIP_OBSERVE"] = "" /\ PlatformPassed
     /\ last.world.cred = CredErr)
    => /\ last.ret \in {Nil, <<"unable to initiate profiling client">> \o ProfilerFailure}
       /\ Idx("trace.RegisterExporter") = {}
       /\ Idx("view.RegisterExporter") = {}

\* C7: a failing profiler.Start makes RegisterAndObserveGCP return the
\* wrapped cause while the trace and metrics registrations of the same
\* invocation stay in place; a successful profiler.Start makes it return nil.
C7_ProfilerNoRollback ==
  Registered =>
    \A i \in Idx("profiler.Start") :
      /\ last.calls[i].res # Nil
           => /\ last.ret = <<"unable to initiate profiling client">> \o last.calls[i].res
              /\ Idx("trace.RegisterExporter") # {}
              /\ Idx("view.RegisterExporter") # {}
              /\ last.exp \in traceExporters
              /\ last.exp \in viewExporters
      /\ last.calls[i].res = Nil
           => /\ last.ret = Nil
              /\ profilerCfg = <<last.calls[i].arg>>

C7_Witness ==
  /\ Registered
  /\ Idx("profiler.Start") # {}
  /\ last.world.profilerErr # Nil
  /\ last.exp # NilExporter

C7_WitnessStarted ==
  /\ Registered
  /\ Idx("profiler.Start") # {}
  /\ last.world.profilerErr = Nil

\* C8: GetServiceInfo returns (GOOGLE_CLOUD_PROJECT, GAE_SERVICE, GAE_VERSION)
\* when GAE_DEPLOYMENT_ID is non-empty, also when SERVICE_NAME and
\* SERVICE_VERSION are set, and (GOOGLE_CLOUD_PROJECT, SERVICE_NAME,
\* SERVICE_VERSION) otherwise; unset variables give "" and no error.
C8_ServiceInfoBranch ==
  last.op = "GetServiceInfo" =>
    /\ last.ret = Nil
    /\ last.info[1] = env["GOOGLE_CLOUD_PROJECT"]
    /\ env["GAE_DEPLOYMENT_ID"] # ""
         => (last.info[2] = env["GAE_SERVICE"] /\ last.info[3] = env["GAE_VERSION"])
    /\ env["GAE_DEPLOYMENT_ID"] = ""
         => (last.info[2] = env["SERVICE_NAME"] /\ last.info[3] = env["SERVICE_VERSION"])

C8_Witness ==
  /\ last.op = "GetServiceInfo"
  /\ env["GAE_DEPLOYMENT_ID"] # ""
  /\ env["SERVICE_NAME"] # ""
  /\ env["SERVICE_VERSION"] # ""
  /\ env["GAE_SERVICE"] = ""
  /\ env["GAE_VERSION"] # ""

\* C9: trace registration, metrics registration and profiler start happen
\* only after the exporter was built without error, in that order and after
\* every probing call; when the factory fails the wrapped factory error is
\* returned and none of the three happens.
C9_StagesInOrder ==
  Registered =>
    /\ \A i \in Idx("stackdriver.NewExporter") :
         last.calls[i].res[2] # Nil
           => /\ last.ret = <<"unable to initiate error tracing exporter">>
                               \o last.calls[i].res[2]
              /\ Idx("trace.RegisterExporter") = {}
              /\ Idx("view.RegisterExporter") = {}
              /\ Idx("profiler.Start") = {}
              /\ i = Len(last.calls)
    /\ (Idx("trace.RegisterExporter") # {} \/ Idx("view.RegisterExporter") # {}
          \/ Idx("profiler.Start") # {})
         => /\ Idx("trace.RegisterExporter") = {Len(last.calls) - 2}
            /\ Idx("view.RegisterExporter") = {Len(last.calls) - 1}
            /\ Idx("profiler.Start") = {Len(last.calls)}
            /\ \A i \in Idx("stackdriver.NewExporter") :
                 /\ last.calls[i].res[2] = Nil
                 /\ i < Len(last.calls) - 2
                 /\ last.calls[Len(last.calls) - 2].arg = last.calls[i].res[1]

C9_Witness ==
  /\ Registered
  /\ Idx("stackdriver.NewExporter") # {}
  /\ last.world.factoryErr # Nil

C9_WitnessRegistered ==
  /\ Registered
  /\ Idx("stackdriver.NewExporter") # {}
  /\ Idx("profiler.Start") # {}

\* C10 as stated: opt-out unset, platform check passed, credentials found =>
\* getSDOpts yields options and the factory is called with them, even though
\* Autodetect is run again and may answer differently.
C10_Original ==
  (Registered /\ env["GIZMO_SKIP_OBSERVE"] = "" /\ PlatformPassed
     /\ last.world.cred # CredErr)
    => /\ last.opts # <<>>
       /\ \E i \in Idx("stackdriver.NewExporter") : last.calls[i].arg = last.opts[1]

\* C10 amended: under the same conditions Autodetect is run again inside
\* getSDOpts, and options are built and handed to the factory exactly when
\* GAE is detected or that second Autodetect returns a descriptor; when the
\* platform check passed on Autodetect alone and the second answer is nil,
\* no options are built and the factory is not called.
C10_ExportAfterRecheck ==
  (Registered /\ env["GIZMO_SKIP_OBSERVE"] = "" /\ PlatformPassed
     /\ last.world.cred # CredErr)
    => /\ \E i \in Idx("Autodetect") :
            last.calls[i].by = "getSDOpts" /\ last.calls[i].res = last.world.ad2
       /\ (IsGAE(env) \/ last.world.ad2 # NoResource)
            => /\ last.opts # <<>>
               /\ \E i \in Idx("stackdriver.NewExporter") :
                    last.calls[i].arg = last.opts[1]
       /\ ~(IsGAE(env) \/ last.world.ad2 # NoResource)
            => /\ last.opts = <<>>
               /\ Idx("stackdriver.NewExporter") = {}

C10_Witness ==
  /\ Registered
  /\ env["GIZMO_SKIP_OBSERVE"] = ""
  /\ env["GAE_DEPLOYMENT_ID"] # ""
  /\ last.world.cred # CredErr
  /\ last.world.ad2 = NoResource
  /\ Idx("stackdriver.NewExporter") # {}

C10_WitnessDiffers ==
  /\ Registered
  /\ env["GIZMO_SKIP_OBSERVE"] = ""
  /\ env["GAE_DEPLOYMENT_ID"] = ""
  /\ last.world.ad1 # NoResource
  /\ last.world.cred # CredErr
  /\ last.world.ad2 = NoResource
  /\ last.opts = <<>>

====
